---- MODULE Spec2Model ----
(***************************************************************************)
(* The filter service of the CQF manager (services/cqfService.ts): a       *)
(* module-level Map from table name to a Set of keys, and four async       *)
(* functions that each await a timer and then run their body to the end    *)
(* in one turn of the event loop.                                          *)
(*                                                                         *)
(* A call is therefore two steps: the invocation, which starts the timer   *)
(* (the call is then "in flight"), and the resumption after the timer,     *)
(* which reads and writes the store and settles the promise.               *)
(*                                                                         *)
(* The page that calls the service (App.tsx) is modelled with it: its      *)
(* React state, and its handlers, each one step up to its await or timer   *)
(* and one step after it. The time prefix of a console line, the table     *)
(* preview and the loading message are not modelled.                       *)
(***************************************************************************)
EXTENDS Integers, Sequences, FiniteSets

\* ---------------------------------------------------------------- bounds
\* Calls in flight at once, and the length of the key sequence of a build.
MaxPending == 2
MaxLen == 2
\* The lines kept in the console, and the characters of a key of the key file.
MaxConsole == 2
MaxKeyChars == 2

Names == {"users", "orders"}
Keys == {"1", "2"}

\* Key sequences a caller may hand to buildCQF: ordered, duplicates allowed.
KeySeqs == UNION {[1..n -> Keys] : n \in 0..MaxLen}

\* The key sequences without duplicates, as a primary-key column gives them.
DistinctKeySeqs == {ks \in KeySeqs : \A i, j \in DOMAIN ks : ks[i] = ks[j] => i = j}

\* ------------------------------------------------------- program constants
\* The timer lengths of the four functions, in milliseconds.
BuildDelay == 1500
SearchDelay == 300
InsertDelay == 500
DeleteDelay == 500

NotBuilt == "Filter not built for this table"

VARIABLES
    mockBackendStore,   \* the Map: a function from the built names to sets of keys
    pending,            \* the calls in flight, in the order their timers were started
    delivered,          \* the call settled by the step that led here, with the value its
                        \* promise resolved to or the error it rejected with (none when
                        \* that step started a call)
    supplied,           \* history: per name, the keys given to a build or insert, no delete since
    live,               \* history: the same, counted from the latest build of the name
    deleted,            \* history: per name, the keys deleted with no insert of them since
    gone,               \* history: the same, with no build of the name since either
    lastMutation,       \* history: per name, the build, insert or delete that took effect last
    tables,             \* App state: the tables of the loaded database, in its order
    selectedTable,      \* App state: the table shown, or null
    isLoading,          \* App state: the loading overlay is shown
    cqfBuiltTables,     \* App state: the names marked as built
    cqfConsole,         \* App state: the console lines, the latest first
    searchKey,          \* App state: the text of the key input
    cqfOperationLoading,\* App state: the three operation buttons are held
    uploading,          \* handleFileUpload is between its first await and its end
    downloading,        \* the timer of handleDownloadPKs is running
    pkKeys,             \* the keys handed to generatePKFileContent
    pkFile              \* the text generatePKFileContent returned for them

history == <<supplied, live, deleted, gone, lastMutation>>
app == <<tables, selectedTable, isLoading, cqfBuiltTables, cqfConsole, searchKey,
         cqfOperationLoading, uploading, downloading>>
export == <<pkKeys, pkFile>>
service == <<mockBackendStore, pending, delivered>>
vars == <<mockBackendStore, pending, delivered, supplied, live, deleted, gone, lastMutation,
          tables, selectedTable, isLoading, cqfBuiltTables, cqfConsole, searchKey,
          cqfOperationLoading, uploading, downloading, pkKeys, pkFile>>

\* ------------------------------------------------------------------ helpers
\* new Set(keys)
SetOf(keys) == {keys[i] : i \in DOMAIN keys}

\* Map.prototype.set. Faulty variants come first: one that forgets the other
\* names, one that adds to the set the name already has, one that keeps the set
\* the name already has, one that drops a name whose set is empty.
MapSetOnly(map, name, value) == [m \in {name} |-> value]
MapSetMerge(map, name, value) ==
    [m \in (DOMAIN map) \cup {name} |->
        IF m # name THEN map[m]
        ELSE IF name \in DOMAIN map THEN map[name] \cup value ELSE value]
MapSetIfAbsent(map, name, value) ==
    [m \in (DOMAIN map) \cup {name} |-> IF m \in DOMAIN map THEN map[m] ELSE value]
MapSetDropEmpty(map, name, value) ==
    [m \in ((DOMAIN map) \cup {name}) \ (IF value = {} THEN {name} ELSE {}) |->
        IF m = name THEN value ELSE map[m]]
MapSet(map, name, value) ==
    [m \in (DOMAIN map) \cup {name} |-> IF m = name THEN value ELSE map[m]]

\* Map.prototype.get: undefined for a name the map does not hold. Faulty
\* variants: one that creates an empty set for a missing name, one that takes an
\* empty set for a missing one.
MapGetOrCreate(map, name) ==
    [undefined |-> FALSE, set |-> IF name \in DOMAIN map THEN map[name] ELSE {}]
MapGetEmptyAsMissing(map, name) ==
    IF name \in DOMAIN map /\ map[name] # {}
    THEN [undefined |-> FALSE, set |-> map[name]]
    ELSE [undefined |-> TRUE, set |-> {}]
MapGet(map, name) ==
    IF name \in DOMAIN map
    THEN [undefined |-> FALSE, set |-> map[name]]
    ELSE [undefined |-> TRUE, set |-> {}]

\* Set.prototype.has (and a faulty variant that only looks whether the set is empty)
SetHasAny(set, key) == set # {}
SetHas(set, key) == key \in set

\* Set.prototype.add (and faulty variants: adding nothing, keeping only the key)
SetAddNothing(set, key) == set
SetAddAlone(set, key) == {key}
SetAdd(set, key) == set \cup {key}

\* Set.prototype.delete: the set it leaves, and the boolean it returns: whether
\* the key was in the set. Faulty variants: clearing the set, removing nothing,
\* and looking for the key after it was removed.
SetDeleteAll(set, key) == {}
SetDeleteNothing(set, key) == set
SetDelete(set, key) == set \ {key}
SetDeletedAfter(set, key) == key \in (set \ {key})
SetDeleted(set, key) == key \in set

\* The calls in flight without the i-th (and a faulty variant that also loses
\* the calls started after it).
RemoveAtAndAfter(s, i) == SubSeq(s, 1, i - 1)
RemoveAt(s, i) == SubSeq(s, 1, i - 1) \o SubSeq(s, i + 1, Len(s))

delay(op) ==
    CASE op = "build" -> BuildDelay
      [] op = "search" -> SearchDelay
      [] op = "insert" -> InsertDelay
      [] op = "delete" -> DeleteDelay

\* setTimeout: a timer fires only after every timer that was started before it
\* with an equal or shorter timeout; between timers of other lengths the order
\* depends on when they were started, which the callers choose.
TimerMayFire(i) ==
    \A j \in 1..(i - 1) : delay(pending[j].op) > delay(pending[i].op)

NoOutcome == [status |-> "none"]
Resolved(call, value) == [status |-> "resolved", call |-> call, value |-> value]
Rejected(call, error) == [status |-> "rejected", call |-> call, error |-> error]

\* ------------------------------------------------------------ the four calls
\* Each function up to its await: the timer is started and the call is in flight.
Start(call) ==
    /\ pending' = Append(pending, call)
    /\ delivered' = NoOutcome
    /\ UNCHANGED mockBackendStore

buildCQF(tableName, keys) ==
    /\ Len(pending) < MaxPending
    /\ Start([op |-> "build", tableName |-> tableName, keys |-> keys])

searchCQF(tableName, key) ==
    /\ Len(pending) < MaxPending
    /\ Start([op |-> "search", tableName |-> tableName, key |-> key])

insertCQF(tableName, key) ==
    /\ Len(pending) < MaxPending
    /\ Start([op |-> "insert", tableName |-> tableName, key |-> key])

deleteCQF(tableName, key) ==
    /\ Len(pending) < MaxPending
    /\ Start([op |-> "delete", tableName |-> tableName, key |-> key])

\* Each function after its await: the timer of the i-th call in flight fires and
\* the rest of the body runs to its return or throw in one turn of the event loop.
Resume(i, op) ==
    /\ i \in DOMAIN pending
    /\ pending[i].op = op
    /\ TimerMayFire(i)
    /\ pending' = RemoveAt(pending, i)

\* The set a build installs, and the count interpolated into its message.
\* (BuiltSetButLast is a faulty variant that leaves the instance one key short.)
BuiltSetButLast(keys) == SetOf(SubSeq(keys, 1, Len(keys) - 1))
BuiltSet(keys) == SetOf(keys)
BuildCount(keys) == Len(keys)
BuildMessage(tableName, keys) == [tableName |-> tableName, keys |-> BuildCount(keys)]

buildResume(i) ==
    /\ Resume(i, "build")
    /\ LET call == pending[i] IN
        /\ mockBackendStore' =
               MapSet(mockBackendStore, call.tableName, BuiltSet(call.keys))
        /\ delivered' = Resolved(call,
               [success |-> TRUE, message |-> BuildMessage(call.tableName, call.keys)])

searchResume(i) ==
    /\ Resume(i, "search")
    /\ LET call == pending[i]
           got == MapGet(mockBackendStore, call.tableName)
       IN  /\ delivered' =
                  IF got.undefined
                  THEN Rejected(call, NotBuilt)
                  ELSE Resolved(call, [found |-> SetHas(got.set, call.key)])
           /\ UNCHANGED mockBackendStore

\* set.add and set.delete change the Set object the Map holds for the name.
insertResume(i) ==
    /\ Resume(i, "insert")
    /\ LET call == pending[i]
           got == MapGet(mockBackendStore, call.tableName)
       IN  IF got.undefined
           THEN /\ delivered' = Rejected(call, NotBuilt)
                /\ UNCHANGED mockBackendStore
           ELSE /\ mockBackendStore' =
                       MapSet(mockBackendStore, call.tableName, SetAdd(got.set, call.key))
                /\ delivered' = Resolved(call, [success |-> TRUE])

deleteResume(i) ==
    /\ Resume(i, "delete")
    /\ LET call == pending[i]
           got == MapGet(mockBackendStore, call.tableName)
       IN  IF got.undefined
           THEN /\ delivered' = Rejected(call, NotBuilt)
                /\ UNCHANGED mockBackendStore
           ELSE /\ mockBackendStore' =
                       MapSet(mockBackendStore, call.tableName, SetDelete(got.set, call.key))
                /\ delivered' = Resolved(call,
                       [success |-> SetDeleted(got.set, call.key)])

\* ------------------------------------------------------------ the key file
\* generatePKFileContent works on strings; a key is modelled here as the
\* sequence of its characters, so that joining and splitting are computed.
Newline == "\n"
Chars == {"a", Newline}
KeyStrings == UNION {[1..n -> Chars] : n \in 0..MaxKeyChars}
KeyLists == UNION {[1..n -> KeyStrings] : n \in 0..MaxLen}

\* Array.prototype.join: the elements with the separator between each two.
RECURSIVE ArrayJoin(_, _)
ArrayJoin(array, separator) ==
    IF array = <<>> THEN <<>>
    ELSE IF Len(array) = 1 THEN array[1]
    ELSE array[1] \o separator \o ArrayJoin(Tail(array), separator)

\* (a faulty variant ends the text with a newline)
generatePKFileContentTrailing(keys) == ArrayJoin(keys, <<Newline>>) \o <<Newline>>
generatePKFileContent(keys) == ArrayJoin(keys, <<Newline>>)

NoFile == [generated |-> FALSE, content |-> <<>>]

\* The step that applies generatePKFileContent to the keys drawn at the start.
generateContent ==
    /\ ~pkFile.generated
    /\ pkFile' = [generated |-> TRUE, content |-> generatePKFileContent(pkKeys)]
    /\ UNCHANGED pkKeys

\* ------------------------------------------------------------------ the page
null == [null |-> TRUE]

\* A TableInfo: its name, and whether getTables found a primary key column.
TableInfos == [name : Names, pkColumn : BOOLEAN]

\* What getTables returns for a database: its tables, each name once.
Databases ==
    {db \in UNION {[1..n -> TableInfos] : n \in 0..Cardinality(Names)} :
        \A i, j \in DOMAIN db : db[i].name = db[j].name => i = j}

isCqfReady == IF selectedTable # null THEN selectedTable.name \in cqfBuiltTables ELSE FALSE

\* disabled={!searchKey || cqfOperationLoading} (and a faulty variant that
\* does not look at the flag)
ActionDisabledEmptyOnly(key, loading) == key = ""
ActionDisabled(key, loading) == key = "" \/ loading

\* new Set(prev).add(name) (and a faulty variant that marks every name)
MarkBuiltAll(prev, name) == prev \cup Names
MarkBuilt(prev, name) == prev \cup {name}

\* The console lines.
BuildLine(message) == [level |-> "SYSTEM", message |-> message]
BuildErrorLine(error) == [level |-> "ERROR", message |-> <<"Failed to build CQF", error>>]
ErrorLine(error) == [level |-> "ERROR", message |-> error]
SearchLine(key, found) ==
    [level |-> "", op |-> "Search", key |-> key,
     result |-> IF found THEN "FOUND" ELSE "NOT FOUND"]
InsertLine(key) == [level |-> "", op |-> "Insert", key |-> key, result |-> "SUCCESS"]
DeleteLine(key, success) ==
    [level |-> "", op |-> "Delete", key |-> key,
     result |-> IF success THEN "SUCCESS" ELSE "FAILED (Not found)"]

\* setCqfConsole(prev => [line, ...prev]) (and a faulty variant that puts the
\* line last)
addToConsoleLast(prev, line) == Append(prev, line)
addToConsole(prev, line) == <<line>> \o prev

\* The console is cut off at MaxConsole lines: an operation is started only if
\* its line and those of the calls in flight still fit.
ConsoleHasRoom == Len(cqfConsole) + Len(pending) < MaxConsole

\* handleFileUpload up to its first await. The overlay covers the window while
\* isLoading, so a file is chosen, and every handler below is started, only
\* when it is not shown.
handleFileUpload ==
    /\ ~isLoading
    /\ isLoading' = TRUE
    /\ tables' = <<>>
    /\ selectedTable' = null
    /\ cqfBuiltTables' = {}
    /\ cqfConsole' = <<>>
    /\ uploading' = TRUE
    /\ delivered' = NoOutcome
    /\ UNCHANGED <<mockBackendStore, pending, searchKey, cqfOperationLoading, downloading>>

\* handleSelectTable(table), as the sidebar and handleFileUpload call it.
SelectTable(table) ==
    /\ selectedTable' = table
    /\ cqfConsole' = <<>>

\* handleFileUpload after its awaits, the file read as a database.
handleFileUploadLoaded(db) ==
    /\ uploading
    /\ tables' = db
    /\ IF Len(db) > 0 THEN SelectTable(db[1]) ELSE UNCHANGED <<selectedTable, cqfConsole>>
    /\ isLoading' = FALSE
    /\ uploading' = FALSE
    /\ delivered' = NoOutcome
    /\ UNCHANGED <<mockBackendStore, pending, cqfBuiltTables, searchKey,
                   cqfOperationLoading, downloading>>

\* handleFileUpload after its awaits, one of them rejected.
handleFileUploadFailed ==
    /\ uploading
    /\ isLoading' = FALSE
    /\ uploading' = FALSE
    /\ delivered' = NoOutcome
    /\ UNCHANGED <<mockBackendStore, pending, tables, selectedTable, cqfBuiltTables,
                   cqfConsole, searchKey, cqfOperationLoading, downloading>>

handleSelectTable(i) ==
    /\ ~isLoading
    /\ i \in DOMAIN tables
    /\ SelectTable(tables[i])
    /\ delivered' = NoOutcome
    /\ UNCHANGED <<mockBackendStore, pending, tables, isLoading, cqfBuiltTables,
                   searchKey, cqfOperationLoading, uploading, downloading>>

\* handleDownloadPKs up to its setTimeout, and the callback of that timer.
handleDownloadPKs ==
    /\ ~isLoading
    /\ selectedTable # null
    /\ selectedTable.pkColumn
    /\ isLoading' = TRUE
    /\ downloading' = TRUE
    /\ delivered' = NoOutcome
    /\ UNCHANGED <<mockBackendStore, pending, tables, selectedTable, cqfBuiltTables,
                   cqfConsole, searchKey, cqfOperationLoading, uploading>>

downloadTimeout ==
    /\ downloading
    /\ isLoading' = FALSE
    /\ downloading' = FALSE
    /\ delivered' = NoOutcome
    /\ UNCHANGED <<mockBackendStore, pending, tables, selectedTable, cqfBuiltTables,
                   cqfConsole, searchKey, cqfOperationLoading, uploading>>

\* The key input, shown with the operations panel.
setSearchKey(text) ==
    /\ ~isLoading
    /\ isCqfReady
    /\ text # searchKey
    /\ searchKey' = text
    /\ delivered' = NoOutcome
    /\ UNCHANGED <<mockBackendStore, pending, tables, selectedTable, isLoading,
                   cqfBuiltTables, cqfConsole, cqfOperationLoading, uploading, downloading>>

\* handleBuildCQF up to its await; keys is what getPrimaryKeys returns. The
\* button is disabled for a table without key column or marked as built.
handleBuildCQF(keys) ==
    /\ ~isLoading
    /\ selectedTable # null
    /\ selectedTable.pkColumn
    /\ ~isCqfReady
    /\ ConsoleHasRoom
    /\ buildCQF(selectedTable.name, keys)
    /\ isLoading' = TRUE
    /\ UNCHANGED <<tables, selectedTable, cqfBuiltTables, cqfConsole, searchKey,
                   cqfOperationLoading, uploading, downloading>>

\* handleBuildCQF after its await: the try, the catch and the finally.
handleBuildCQFResume(i) ==
    /\ buildResume(i)
    /\ LET name == pending[i].tableName
           out == delivered'
       IN  IF out.status = "resolved"
           THEN IF out.value.success
                THEN /\ cqfBuiltTables' = MarkBuilt(cqfBuiltTables, name)
                     /\ cqfConsole' = addToConsole(cqfConsole, BuildLine(out.value.message))
                ELSE UNCHANGED <<cqfBuiltTables, cqfConsole>>
           ELSE /\ cqfConsole' = addToConsole(cqfConsole, BuildErrorLine(out.error))
                /\ UNCHANGED cqfBuiltTables
    /\ isLoading' = FALSE
    /\ UNCHANGED <<tables, selectedTable, searchKey, cqfOperationLoading, uploading,
                   downloading>>

\* performCqfAction up to its await. The panel with the three buttons is shown
\* for a selected table marked as built.
performCqfAction(action) ==
    /\ ~isLoading
    /\ selectedTable # null
    /\ searchKey # ""
    /\ isCqfReady
    /\ ~ActionDisabled(searchKey, cqfOperationLoading)
    /\ ConsoleHasRoom
    /\ \/ action = "search" /\ searchCQF(selectedTable.name, searchKey)
       \/ action = "insert" /\ insertCQF(selectedTable.name, searchKey)
       \/ action = "delete" /\ deleteCQF(selectedTable.name, searchKey)
    /\ cqfOperationLoading' = TRUE
    /\ UNCHANGED <<tables, selectedTable, isLoading, cqfBuiltTables, cqfConsole,
                   searchKey, uploading, downloading>>

\* The line performCqfAction writes for the outcome of its call.
ActionLine(out) ==
    IF out.status = "rejected" THEN ErrorLine(out.error)
    ELSE CASE out.call.op = "search" -> SearchLine(out.call.key, out.value.found)
           [] out.call.op = "insert" -> InsertLine(out.call.key)
           [] out.call.op = "delete" -> DeleteLine(out.call.key, out.value.success)

\* performCqfAction after its await: the try, the catch and the finally.
performCqfActionResume(i) ==
    /\ (searchResume(i) \/ insertResume(i) \/ deleteResume(i))
    /\ cqfConsole' = addToConsole(cqfConsole, ActionLine(delivered'))
    /\ cqfOperationLoading' = FALSE
    /\ searchKey' = ""
    /\ UNCHANGED <<tables, selectedTable, isLoading, cqfBuiltTables, uploading,
                   downloading>>

\* ------------------------------------------------------------ specification
\* The page as its useState calls leave it.
InitApp ==
    /\ tables = <<>>
    /\ selectedTable = null
    /\ isLoading = FALSE
    /\ cqfBuiltTables = {}
    /\ cqfConsole = <<>>
    /\ searchKey = ""
    /\ cqfOperationLoading = FALSE
    /\ uploading = FALSE
    /\ downloading = FALSE

InitService ==
    /\ mockBackendStore = [n \in {} |-> {}]
    /\ pending = <<>>
    /\ delivered = NoOutcome
    /\ supplied = [n \in Names |-> {}]
    /\ live = [n \in Names |-> {}]
    /\ deleted = [n \in Names |-> {}]
    /\ gone = [n \in Names |-> {}]
    /\ lastMutation = [n \in Names |-> [op |-> "none"]]

Init ==
    /\ InitService
    /\ InitApp
    /\ pkKeys = <<>>
    /\ pkFile = NoFile

\* Spec: callers on every table name, building from duplicate-free key sequences.
Next ==
    \/ \E n \in Names, ks \in DistinctKeySeqs : buildCQF(n, ks) /\ UNCHANGED <<history, app, export>>
    \/ \E n \in Names, k \in Keys : searchCQF(n, k) /\ UNCHANGED <<history, app, export>>
    \/ \E n \in Names, k \in Keys : insertCQF(n, k) /\ UNCHANGED <<history, app, export>>
    \/ \E n \in Names, k \in Keys : deleteCQF(n, k) /\ UNCHANGED <<history, app, export>>
    \/ \E i \in 1..MaxPending : buildResume(i) /\ UNCHANGED <<history, app, export>>
    \/ \E i \in 1..MaxPending : searchResume(i) /\ UNCHANGED <<history, app, export>>
    \/ \E i \in 1..MaxPending : insertResume(i) /\ UNCHANGED <<history, app, export>>
    \/ \E i \in 1..MaxPending : deleteResume(i) /\ UNCHANGED <<history, app, export>>

Spec == Init /\ [][Next]_vars

\* ------------------------------------------------- single-table specifications
\* These follow the calls on one table name, with every key sequence up to
\* MaxLen, duplicates included; what a call on one name does to another name is
\* settled under Spec.
Followed == {"users"}

NextTable ==
    \/ \E n \in Followed, ks \in KeySeqs : buildCQF(n, ks) /\ UNCHANGED <<history, app, export>>
    \/ \E n \in Followed, k \in Keys : searchCQF(n, k) /\ UNCHANGED <<history, app, export>>
    \/ \E n \in Followed, k \in Keys : insertCQF(n, k) /\ UNCHANGED <<history, app, export>>
    \/ \E n \in Followed, k \in Keys : deleteCQF(n, k) /\ UNCHANGED <<history, app, export>>
    \/ \E i \in 1..MaxPending : buildResume(i) /\ UNCHANGED <<history, app, export>>
    \/ \E i \in 1..MaxPending : searchResume(i) /\ UNCHANGED <<history, app, export>>
    \/ \E i \in 1..MaxPending : insertResume(i) /\ UNCHANGED <<history, app, export>>
    \/ \E i \in 1..MaxPending : deleteResume(i) /\ UNCHANGED <<history, app, export>>

SpecTable == Init /\ [][NextTable]_vars

\* The calls on the followed table with every timer firing in the end: the i-th
\* call in flight, once no earlier timer holds it back, is resumed after a
\* finite time. Builds take duplicate-free key sequences here.
NextLive ==
    \/ \E n \in Followed, ks \in DistinctKeySeqs : buildCQF(n, ks) /\ UNCHANGED <<history, app, export>>
    \/ \E n \in Followed, k \in Keys : searchCQF(n, k) /\ UNCHANGED <<history, app, export>>
    \/ \E n \in Followed, k \in Keys : insertCQF(n, k) /\ UNCHANGED <<history, app, export>>
    \/ \E n \in Followed, k \in Keys : deleteCQF(n, k) /\ UNCHANGED <<history, app, export>>
    \/ \E i \in 1..MaxPending : buildResume(i) /\ UNCHANGED <<history, app, export>>
    \/ \E i \in 1..MaxPending : searchResume(i) /\ UNCHANGED <<history, app, export>>
    \/ \E i \in 1..MaxPending : insertResume(i) /\ UNCHANGED <<history, app, export>>
    \/ \E i \in 1..MaxPending : deleteResume(i) /\ UNCHANGED <<history, app, export>>

TimerFires(i) ==
    /\ (buildResume(i) \/ searchResume(i) \/ insertResume(i) \/ deleteResume(i))
    /\ UNCHANGED <<history, app, export>>

SpecLive ==
    /\ Init
    /\ [][NextLive]_vars
    /\ \A i \in 1..MaxPending : WF_vars(TimerFires(i))

\* ---------------------------------------------------------------- history

Mutators == {"build", "insert", "delete"}

\* supplied: a build or a successful insert supplies its keys, a delete takes
\* its key back.
SuppliedAfter(h, out) ==
    IF out.status # "resolved" THEN h
    ELSE LET c == out.call IN
         CASE c.op = "build" -> [h EXCEPT ![c.tableName] = @ \cup SetOf(c.keys)]
           [] c.op = "insert" -> [h EXCEPT ![c.tableName] = @ \cup {c.key}]
           [] c.op = "delete" -> [h EXCEPT ![c.tableName] = @ \ {c.key}]
           [] OTHER -> h

\* live: as supplied, but a build starts the account of its name afresh.
LiveAfter(h, out) ==
    IF out.status # "resolved" THEN h
    ELSE LET c == out.call IN
         CASE c.op = "build" -> [h EXCEPT ![c.tableName] = SetOf(c.keys)]
           [] c.op = "insert" -> [h EXCEPT ![c.tableName] = @ \cup {c.key}]
           [] c.op = "delete" -> [h EXCEPT ![c.tableName] = @ \ {c.key}]
           [] OTHER -> h

\* deleted: a delete that returned (true or false) marks its key, an insert of
\* the key clears the mark.
DeletedAfter(h, out) ==
    IF out.status # "resolved" THEN h
    ELSE LET c == out.call IN
         CASE c.op = "delete" -> [h EXCEPT ![c.tableName] = @ \cup {c.key}]
           [] c.op = "insert" -> [h EXCEPT ![c.tableName] = @ \ {c.key}]
           [] OTHER -> h

\* gone: as deleted, but a build of the name clears every mark of the name.
GoneAfter(h, out) ==
    IF out.status # "resolved" THEN h
    ELSE LET c == out.call IN
         CASE c.op = "delete" -> [h EXCEPT ![c.tableName] = @ \cup {c.key}]
           [] c.op = "insert" -> [h EXCEPT ![c.tableName] = @ \ {c.key}]
           [] c.op = "build" -> [h EXCEPT ![c.tableName] = {}]
           [] OTHER -> h

\* lastMutation: the build, insert or delete that took effect last on the name,
\* what it returned, and (follows) the operation that took effect right before
\* it on the same name if that one had the same keys.
MutationAfter(h, out) ==
    IF out.status # "resolved" \/ out.call.op \notin Mutators THEN h
    ELSE LET c == out.call
             ks == IF c.op = "build" THEN c.keys ELSE <<c.key>>
             before == h[c.tableName]
         IN  [h EXCEPT ![c.tableName] =
                 [op |-> c.op,
                  keys |-> ks,
                  count |-> IF c.op = "build" THEN out.value.message.keys ELSE 0,
                  success |-> out.value.success,
                  follows |-> IF before.op # "none" /\ before.keys = ks
                              THEN before.op ELSE "none"]]

RecordSupplied ==
    /\ supplied' = SuppliedAfter(supplied, delivered')
    /\ live' = LiveAfter(live, delivered')
    /\ UNCHANGED <<deleted, gone, lastMutation, app, export>>

RecordDeleted ==
    /\ deleted' = DeletedAfter(deleted, delivered')
    /\ gone' = GoneAfter(gone, delivered')
    /\ UNCHANGED <<supplied, live, lastMutation, app, export>>

RecordMutation ==
    /\ lastMutation' = MutationAfter(lastMutation, delivered')
    /\ UNCHANGED <<supplied, live, deleted, gone, app, export>>

NextSupplied ==
    \/ \E n \in Followed, ks \in KeySeqs : buildCQF(n, ks) /\ RecordSupplied
    \/ \E n \in Followed, k \in Keys : searchCQF(n, k) /\ RecordSupplied
    \/ \E n \in Followed, k \in Keys : insertCQF(n, k) /\ RecordSupplied
    \/ \E n \in Followed, k \in Keys : deleteCQF(n, k) /\ RecordSupplied
    \/ \E i \in 1..MaxPending : buildResume(i) /\ RecordSupplied
    \/ \E i \in 1..MaxPending : searchResume(i) /\ RecordSupplied
    \/ \E i \in 1..MaxPending : insertResume(i) /\ RecordSupplied
    \/ \E i \in 1..MaxPending : deleteResume(i) /\ RecordSupplied

SpecSupplied == Init /\ [][NextSupplied]_vars

NextDeleted ==
    \/ \E n \in Followed, ks \in KeySeqs : buildCQF(n, ks) /\ RecordDeleted
    \/ \E n \in Followed, k \in Keys : searchCQF(n, k) /\ RecordDeleted
    \/ \E n \in Followed, k \in Keys : insertCQF(n, k) /\ RecordDeleted
    \/ \E n \in Followed, k \in Keys : deleteCQF(n, k) /\ RecordDeleted
    \/ \E i \in 1..MaxPending : buildResume(i) /\ RecordDeleted
    \/ \E i \in 1..MaxPending : searchResume(i) /\ RecordDeleted
    \/ \E i \in 1..MaxPending : insertResume(i) /\ RecordDeleted
    \/ \E i \in 1..MaxPending : deleteResume(i) /\ RecordDeleted

SpecDeleted == Init /\ [][NextDeleted]_vars

NextMutation ==
    \/ \E n \in Followed, ks \in KeySeqs : buildCQF(n, ks) /\ RecordMutation
    \/ \E n \in Followed, k \in Keys : searchCQF(n, k) /\ RecordMutation
    \/ \E n \in Followed, k \in Keys : insertCQF(n, k) /\ RecordMutation
    \/ \E n \in Followed, k \in Keys : deleteCQF(n, k) /\ RecordMutation
    \/ \E i \in 1..MaxPending : buildResume(i) /\ RecordMutation
    \/ \E i \in 1..MaxPending : searchResume(i) /\ RecordMutation
    \/ \E i \in 1..MaxPending : insertResume(i) /\ RecordMutation
    \/ \E i \in 1..MaxPending : deleteResume(i) /\ RecordMutation

SpecMutation == Init /\ [][NextMutation]_vars

\* ------------------------------------------------------------------ the page
\* SpecApp: the service as the page calls it.
NextApp ==
    \/ handleFileUpload /\ UNCHANGED <<history, export>>
    \/ \E db \in Databases : handleFileUploadLoaded(db) /\ UNCHANGED <<history, export>>
    \/ handleFileUploadFailed /\ UNCHANGED <<history, export>>
    \/ \E i \in 1..Cardinality(Names) : handleSelectTable(i) /\ UNCHANGED <<history, export>>
    \/ handleDownloadPKs /\ UNCHANGED <<history, export>>
    \/ downloadTimeout /\ UNCHANGED <<history, export>>
    \/ \E text \in Keys \cup {""} : setSearchKey(text) /\ UNCHANGED <<history, export>>
    \/ \E ks \in DistinctKeySeqs : handleBuildCQF(ks) /\ UNCHANGED <<history, export>>
    \/ \E i \in 1..MaxPending : handleBuildCQFResume(i) /\ UNCHANGED <<history, export>>
    \/ \E action \in {"search", "insert", "delete"} :
          performCqfAction(action) /\ UNCHANGED <<history, export>>
    \/ \E i \in 1..MaxPending : performCqfActionResume(i) /\ UNCHANGED <<history, export>>

SpecApp == Init /\ [][NextApp]_vars

\* SpecAppLive: the page on databases that hold the followed table at most,
\* with every timer of a call in flight firing in the end.
FollowedDatabases == {db \in Databases : \A i \in DOMAIN db : db[i].name \in Followed}

NextAppLive ==
    \/ handleFileUpload /\ UNCHANGED <<history, export>>
    \/ \E db \in FollowedDatabases : handleFileUploadLoaded(db) /\ UNCHANGED <<history, export>>
    \/ handleFileUploadFailed /\ UNCHANGED <<history, export>>
    \/ \E i \in 1..Cardinality(Names) : handleSelectTable(i) /\ UNCHANGED <<history, export>>
    \/ handleDownloadPKs /\ UNCHANGED <<history, export>>
    \/ downloadTimeout /\ UNCHANGED <<history, export>>
    \/ \E text \in Keys \cup {""} : setSearchKey(text) /\ UNCHANGED <<history, export>>
    \/ \E ks \in DistinctKeySeqs : handleBuildCQF(ks) /\ UNCHANGED <<history, export>>
    \/ \E i \in 1..MaxPending : handleBuildCQFResume(i) /\ UNCHANGED <<history, export>>
    \/ \E action \in {"search", "insert", "delete"} :
          performCqfAction(action) /\ UNCHANGED <<history, export>>
    \/ \E i \in 1..MaxPending : performCqfActionResume(i) /\ UNCHANGED <<history, export>>

AppTimerFires(i) ==
    /\ (handleBuildCQFResume(i) \/ performCqfActionResume(i))
    /\ UNCHANGED <<history, export>>

SpecAppLive ==
    /\ Init
    /\ [][NextAppLive]_vars
    /\ \A i \in 1..MaxPending : WF_vars(AppTimerFires(i))

\* ------------------------------------------------------------ the key file
\* SpecExport: generatePKFileContent applied to every list of up to MaxLen keys
\* of up to MaxKeyChars characters.
InitExport ==
    /\ InitService
    /\ InitApp
    /\ pkKeys \in KeyLists
    /\ pkFile = NoFile

NextExport ==
    \/ generateContent /\ UNCHANGED <<service, history, app>>

SpecExport == InitExport /\ [][NextExport]_vars

\* ------------------------------------------------------------------- claims
\* A step in which the timer of a call in flight fires: the call settles, and
\* delivered' holds the call and its outcome.
Settles == Len(pending') < Len(pending)

\* C1 as stated: a search for a key that was given to a completed build or a
\* successful insert of the name, with no delete of it completed since, returns
\* found = true.
C1_AsStated ==
    (delivered.status # "none" /\ delivered.call.op = "search"
        /\ delivered.call.key \in supplied[delivered.call.tableName])
    => (delivered.status = "resolved" /\ delivered.value.found = TRUE)

\* C1: a search for a key that was among the keys of the latest completed build
\* of the name, or was given to a successful insert after that build, with no
\* delete of it completed since, returns found = true.
C1_NoFalseNegatives ==
    (delivered.status # "none" /\ delivered.call.op = "search"
        /\ delivered.call.key \in live[delivered.call.tableName])
    => (delivered.status = "resolved" /\ delivered.value.found = TRUE)

\* A search has found a live key of a name that an earlier build had replaced,
\* dropping another key.
C1_Witness ==
    /\ delivered.status = "resolved"
    /\ delivered.call.op = "search"
    /\ delivered.value.found = TRUE
    /\ delivered.call.key \in live[delivered.call.tableName]
    /\ supplied[delivered.call.tableName] # live[delivered.call.tableName]

\* C2: a search, insert or delete that settles on a name the store does not
\* hold is rejected with the NotBuilt error and leaves the whole store as it was.
C2_UnbuiltAccess ==
    [][(Settles
          /\ delivered'.call.op \in {"search", "insert", "delete"}
          /\ delivered'.call.tableName \notin DOMAIN mockBackendStore)
       => (/\ delivered'.status = "rejected"
           /\ delivered'.error = "Filter not built for this table"
           /\ mockBackendStore' = mockBackendStore
           /\ delivered'.call.tableName \notin DOMAIN mockBackendStore')]_vars

\* An insert was rejected on a name that is not built while the other name is.
C2_Witness ==
    /\ delivered.status = "rejected"
    /\ delivered.call.op = "insert"
    /\ delivered.call.tableName \notin DOMAIN mockBackendStore
    /\ DOMAIN mockBackendStore # {}

\* C3, not blocked: a search, insert or delete in flight can fire unless an
\* earlier call in flight other than a build holds it back; a build in flight
\* never does.
C3_NotBlocked ==
    \A i \in DOMAIN pending :
        (/\ pending[i].op # "build"
         /\ \A j \in 1..(i - 1) :
               pending[j].op # "build" => delay(pending[j].op) > delay(pending[i].op))
        => ENABLED (searchResume(i) \/ insertResume(i) \/ deleteResume(i))

\* C3, served against the previous instance and replaced in one step: starting
\* a call changes no instance; a search, insert or delete that settles while a
\* build of its name is in flight acts on the instance the store held before
\* the step (or is rejected if there is none); a build that settles leaves
\* exactly the set of its keys as the instance.
C3_OldThenNew ==
    IF ~Settles THEN mockBackendStore' = mockBackendStore
    ELSE LET out == delivered'
             c == out.call
             n == c.tableName
             old == mockBackendStore
             new == mockBackendStore'
         IN  /\ c.op = "build" =>
                   /\ out.status = "resolved"
                   /\ n \in DOMAIN new
                   /\ new[n] = SetOf(c.keys)
             /\ (c.op # "build"
                   /\ \E j \in DOMAIN pending' :
                         pending'[j].op = "build" /\ pending'[j].tableName = n) =>
                   IF n \notin DOMAIN old
                   THEN out.status = "rejected" /\ new = old
                   ELSE /\ out.status = "resolved"
                        /\ n \in DOMAIN new
                        /\ c.op = "search" =>
                              new = old /\ out.value.found = (c.key \in old[n])
                        /\ c.op = "insert" => new[n] = old[n] \cup {c.key}
                        /\ c.op = "delete" =>
                              /\ new[n] = old[n] \ {c.key}
                              /\ out.value.success = (c.key \in old[n])

C3_AtomicReplacement == [](C3_NotBlocked) /\ [][C3_OldThenNew]_vars

\* A search found a key in the previous instance while a build of the same name
\* that does not hold the key is still in flight.
C3_Witness ==
    /\ delivered.status = "resolved"
    /\ delivered.call.op = "search"
    /\ delivered.value.found = TRUE
    /\ \E j \in DOMAIN pending :
          /\ pending[j].op = "build"
          /\ pending[j].tableName = delivered.call.tableName
          /\ delivered.call.key \notin SetOf(pending[j].keys)

\* C4 as stated: no two mutating calls on the same name are in flight at once.
C4_AsStated ==
    \A i, j \in DOMAIN pending :
        (i # j /\ pending[i].op \in Mutators /\ pending[j].op \in Mutators)
        => pending[i].tableName # pending[j].tableName

\* C4: mutations take effect one call at a time. Every step that changes the
\* store settles exactly one call in flight, a build, insert or delete; the
\* change is that call's whole effect on its own name; and every other call
\* stays in flight as it was.
C4_OneMutationPerStep ==
    [][mockBackendStore' # mockBackendStore =>
        /\ Settles
        /\ LET c == delivered'.call
               n == c.tableName
               old == mockBackendStore
               new == mockBackendStore'
           IN  /\ c.op \in Mutators
               /\ delivered'.status = "resolved"
               /\ \E i \in DOMAIN pending :
                     /\ pending[i] = c
                     /\ Len(pending') = Len(pending) - 1
                     /\ \A j \in DOMAIN pending' :
                           pending'[j] = pending[IF j < i THEN j ELSE j + 1]
               /\ DOMAIN new = DOMAIN old \cup {n}
               /\ \A m \in DOMAIN old : m # n => new[m] = old[m]
               /\ c.op = "build" => new[n] = SetOf(c.keys)
               /\ c.op = "insert" => new[n] = old[n] \cup {c.key}
               /\ c.op = "delete" => new[n] = old[n] \ {c.key}]_vars

\* A delete has taken effect on a name while another mutating call on the same
\* name is in flight.
C4_Witness ==
    /\ delivered.status = "resolved"
    /\ delivered.call.op = "delete"
    /\ delivered.value.success = TRUE
    /\ \E j \in DOMAIN pending :
          /\ pending[j].op \in Mutators
          /\ pending[j].tableName = delivered.call.tableName

\* C5: a step of a call on one name (its start, or its settling with a result
\* or a rejection) leaves every other name as it was: held or not held by the
\* store, and with the same keys.
C5_Isolation ==
    [][LET n == IF Settles THEN delivered'.call.tableName
                ELSE pending'[Len(pending')].tableName
       IN  \A b \in Names \ {n} :
              /\ (b \in DOMAIN mockBackendStore') = (b \in DOMAIN mockBackendStore)
              /\ b \in DOMAIN mockBackendStore =>
                    mockBackendStore'[b] = mockBackendStore[b]]_vars

\* A build has settled on one name while another name holds a non-empty,
\* different instance.
C5_Witness ==
    /\ delivered.status = "resolved"
    /\ delivered.call.op = "build"
    /\ \E b \in DOMAIN mockBackendStore :
          /\ b # delivered.call.tableName
          /\ mockBackendStore[b] # {}
          /\ mockBackendStore[b] # mockBackendStore[delivered.call.tableName]

\* The outcome of a delete that settles on a built name, against the marks in h.
DeleteOutcome(h) ==
    (Settles
        /\ delivered'.call.op = "delete"
        /\ delivered'.call.tableName \in DOMAIN mockBackendStore)
    => LET c == delivered'.call
           n == c.tableName
           old == mockBackendStore[n]
       IN  /\ delivered'.status = "resolved"
           /\ n \in DOMAIN mockBackendStore'
           /\ delivered'.value.success = (c.key \in old)
           /\ c.key \notin mockBackendStore'[n]
           /\ delivered'.value.success = FALSE => mockBackendStore' = mockBackendStore
           /\ \A o \in Keys \ {c.key} : (o \in mockBackendStore'[n]) = (o \in old)
           /\ c.key \in h[n] => delivered'.value.success = FALSE

\* C6 as stated: a delete on a built name returns success = true exactly when
\* the key was present, and the key is then absent; it returns false, as a
\* result, when the key was absent, and changes nothing; no other key's
\* membership changes; and a delete of a key that was deleted before, with no
\* insert of it in between, returns false.
C6_AsStated == [][DeleteOutcome(deleted)]_vars

\* C6: the same, the last part for a key that was deleted before with no insert
\* of it and no build of the name in between.
C6_DeleteOutcome == [][DeleteOutcome(gone)]_vars

\* A delete has removed a key that was present and has left the other key in.
C6_Witness ==
    /\ delivered.status = "resolved"
    /\ delivered.call.op = "delete"
    /\ delivered.value.success = TRUE
    /\ delivered.call.key \in gone[delivered.call.tableName]
    /\ delivered.call.key \notin mockBackendStore[delivered.call.tableName]
    /\ mockBackendStore[delivered.call.tableName] # {}

\* C7: when the last two operations that took effect on a name are an insert of
\* k and then a delete of k, that delete returned success = true, and a search
\* for k that settles then returns found = false.
C7_InsertDeleteRoundTrip ==
    /\ \A n \in Names :
          (lastMutation[n].op = "delete" /\ lastMutation[n].follows = "insert")
          => lastMutation[n].success = TRUE
    /\ (/\ delivered.status # "none"
        /\ delivered.call.op = "search"
        /\ lastMutation[delivered.call.tableName].op = "delete"
        /\ lastMutation[delivered.call.tableName].keys = <<delivered.call.key>>
        /\ lastMutation[delivered.call.tableName].follows = "insert")
       => (delivered.status = "resolved" /\ delivered.value.found = FALSE)

\* A search for k was not found right after an insert and a delete of k, with
\* another key still in the instance.
C7_Witness ==
    /\ delivered.status = "resolved"
    /\ delivered.call.op = "search"
    /\ delivered.value.found = FALSE
    /\ lastMutation[delivered.call.tableName].op = "delete"
    /\ lastMutation[delivered.call.tableName].keys = <<delivered.call.key>>
    /\ lastMutation[delivered.call.tableName].follows = "insert"
    /\ lastMutation[delivered.call.tableName].success = TRUE
    /\ mockBackendStore[delivered.call.tableName] # {}

\* C8: a build that settles right after a build of the same name with the
\* same keys (no insert or delete on the name in between) reports the count the
\* first one reported and leaves the instance as the first one left it, with
\* every key of keys in it, before and after.
C8_IdempotentBuild ==
    [][(Settles
          /\ delivered'.call.op = "build"
          /\ lastMutation[delivered'.call.tableName].op = "build"
          /\ lastMutation[delivered'.call.tableName].keys = delivered'.call.keys)
       => LET c == delivered'.call
              n == c.tableName
          IN  /\ delivered'.status = "resolved"
              /\ delivered'.value.success = TRUE
              /\ delivered'.value.message.keys = lastMutation[n].count
              /\ n \in DOMAIN mockBackendStore
              /\ mockBackendStore'[n] = mockBackendStore[n]
              /\ \A i \in DOMAIN c.keys :
                    c.keys[i] \in mockBackendStore[n] /\ c.keys[i] \in mockBackendStore'[n]]_vars

\* A build of two different keys has settled right after a build with the same
\* keys.
C8_Witness ==
    /\ delivered.status = "resolved"
    /\ delivered.call.op = "build"
    /\ lastMutation[delivered.call.tableName].op = "build"
    /\ lastMutation[delivered.call.tableName].follows = "build"
    /\ Cardinality(SetOf(delivered.call.keys)) = 2

\* C9: the count a build reports is the number of distinct keys in keys, and
\* the number of keys the instance it leaves holds.
C9_ItemCount ==
    (delivered.status = "resolved" /\ delivered.call.op = "build")
    => /\ delivered.value.message.keys = Cardinality(SetOf(delivered.call.keys))
       /\ delivered.value.message.keys =
              Cardinality(mockBackendStore[delivered.call.tableName])

\* C10: a build that settles is resolved with success = true and leaves its
\* name in the store, with the empty set if keys is empty; a name in the store
\* stays in it; and a search, insert or delete that settles on a name in the
\* store is resolved, a search of an empty instance with found = false.
C10_BuildSucceeds ==
    [][/\ \A n \in DOMAIN mockBackendStore : n \in DOMAIN mockBackendStore'
       /\ Settles =>
             LET out == delivered'
                 c == out.call
                 n == c.tableName
             IN  /\ c.op = "build" =>
                       /\ out.status = "resolved"
                       /\ out.value.success = TRUE
                       /\ n \in DOMAIN mockBackendStore'
                       /\ c.keys = <<>> => mockBackendStore'[n] = {}
                 /\ (c.op # "build" /\ n \in DOMAIN mockBackendStore) =>
                       /\ out.status = "resolved"
                       /\ (c.op = "search" /\ mockBackendStore[n] = {}) =>
                             out.value.found = FALSE
                       /\ c.op = "insert" => out.value.success = TRUE]_vars

\* A search was resolved with found = false on a name whose last mutation is a
\* build with no keys.
C10_Witness ==
    /\ delivered.status = "resolved"
    /\ delivered.call.op = "search"
    /\ delivered.value.found = FALSE
    /\ lastMutation[delivered.call.tableName].op = "build"
    /\ lastMutation[delivered.call.tableName].keys = <<>>
    /\ mockBackendStore[delivered.call.tableName] = {}

\* C11: the step in which a new database file is taken (handleFileUpload)
\* leaves no name in the store: every name that was built, and every name the
\* page marked as built, is absent from the store after it.
C11_ResetToAbsent ==
    [][(uploading' /\ ~uploading)
       => \A n \in (DOMAIN mockBackendStore) \cup cqfBuiltTables :
             n \notin DOMAIN mockBackendStore']_vars

\* The calls a caller of the followed table can make.
Calls ==
    {[op |-> "build", tableName |-> n, keys |-> ks] : n \in Followed, ks \in DistinctKeySeqs}
    \cup {[op |-> o, tableName |-> n, key |-> k] :
            o \in {"search", "insert", "delete"}, n \in Followed, k \in Keys}

InFlight(c) == \E i \in DOMAIN pending : pending[i] = c

\* C12, one outcome per call: a step either puts one new call in flight and
\* touches no other, or takes exactly one call out of flight and delivers that
\* call's outcome, a result or the NotBuilt error; every other call stays in
\* flight.
C12_OneOutcome ==
    IF Settles
    THEN /\ delivered'.status \in {"resolved", "rejected"}
         /\ delivered'.status = "rejected" => delivered'.error = NotBuilt
         /\ \E i \in DOMAIN pending :
               /\ pending[i] = delivered'.call
               /\ Len(pending') = Len(pending) - 1
               /\ \A j \in DOMAIN pending' :
                     pending'[j] = pending[IF j < i THEN j ELSE j + 1]
    ELSE /\ Len(pending') = Len(pending) + 1
         /\ SubSeq(pending', 1, Len(pending)) = pending

\* C12: no call is dropped. Every call in flight is settled in the end, with
\* its outcome delivered, and every step delivers at most one outcome, to the
\* call it takes out of flight.
C12_NoCallDropped ==
    /\ [][C12_OneOutcome]_vars
    /\ \A c \in Calls :
          InFlight(c) ~> (delivered.status \in {"resolved", "rejected"} /\ delivered.call = c)

\* A call was rejected with NotBuilt while a call started before it is still
\* in flight.
C12_Witness ==
    /\ delivered.status = "rejected"
    /\ delivered.error = NotBuilt
    /\ pending # <<>>
    /\ pending[1].op = "build"

\* C13: an insert that settles on a built name returns success = true, leaves
\* its key in the instance and the membership of every other key as it was; the
\* instance has one key more if the key was not in it and is unchanged if it was.
C13_InsertEffect ==
    [][(Settles
          /\ delivered'.call.op = "insert"
          /\ delivered'.call.tableName \in DOMAIN mockBackendStore)
       => LET c == delivered'.call
              n == c.tableName
              old == mockBackendStore[n]
          IN  /\ delivered'.status = "resolved"
              /\ delivered'.value.success = TRUE
              /\ n \in DOMAIN mockBackendStore'
              /\ c.key \in mockBackendStore'[n]
              /\ \A o \in Keys \ {c.key} : (o \in mockBackendStore'[n]) = (o \in old)
              /\ Cardinality(mockBackendStore'[n]) =
                     IF c.key \in old THEN Cardinality(old) ELSE Cardinality(old) + 1
              /\ c.key \in old => mockBackendStore' = mockBackendStore]_vars

\* An insert has settled on a name whose instance then holds its key and
\* another one.
C13_Witness ==
    /\ delivered.status = "resolved"
    /\ delivered.call.op = "insert"
    /\ delivered.call.key \in mockBackendStore[delivered.call.tableName]
    /\ Cardinality(mockBackendStore[delivered.call.tableName]) = 2

\* String.prototype.split on one character: the pieces between its occurrences.
RECURSIVE StringSplit(_, _)
StringSplit(str, ch) ==
    IF \A i \in DOMAIN str : str[i] # ch THEN <<str>>
    ELSE LET i == CHOOSE j \in DOMAIN str : str[j] = ch /\ \A h \in 1..(j - 1) : str[h] # ch
         IN  <<SubSeq(str, 1, i - 1)>> \o StringSplit(SubSeq(str, i + 1, Len(str)), ch)

\* The number of characters before the i-th key in the text of the keys, each
\* key but the last followed by one character.
RECURSIVE KeyOffset(_, _)
KeyOffset(keys, i) ==
    IF i = 1 THEN 0 ELSE KeyOffset(keys, i - 1) + Len(keys[i - 1]) + 1

\* C14: the text generatePKFileContent returns is the keys in their order, one
\* newline between each two, nothing before the first and nothing after the
\* last; it is empty for no keys; and when no key holds a newline and there is
\* at least one key, splitting it at the newlines gives the keys back.
C14_KeyExportFormat ==
    pkFile.generated =>
        LET n == Len(pkKeys)
            text == pkFile.content
        IN  /\ n = 0 => text = <<>>
            /\ n > 0 => Len(text) = KeyOffset(pkKeys, n) + Len(pkKeys[n])
            /\ \A i \in 1..n :
                  SubSeq(text, KeyOffset(pkKeys, i) + 1, KeyOffset(pkKeys, i) + Len(pkKeys[i]))
                      = pkKeys[i]
            /\ \A i \in 1..(n - 1) : text[KeyOffset(pkKeys, i) + Len(pkKeys[i]) + 1] = Newline
            /\ (n > 0 /\ \A i \in 1..n : \A j \in DOMAIN pkKeys[i] : pkKeys[i][j] # Newline)
                  => StringSplit(text, Newline) = pkKeys

\* The text was generated for the same non-empty key given twice, and splits
\* back into the two.
C14_Witness ==
    /\ pkFile.generated
    /\ Len(pkKeys) = 2
    /\ pkKeys[1] = pkKeys[2]
    /\ pkKeys[1] = <<"a">>
    /\ pkFile.content = <<"a", Newline, "a">>
    /\ StringSplit(pkFile.content, Newline) = pkKeys

\* C15: a build that settles leaves, as the one instance of its name, exactly
\* the distinct keys of keys, whatever the name held before: a key supplied
\* earlier and not in keys is not in it, a key deleted earlier and in keys is;
\* the other names keep their instances.
C15_BuildReplaces ==
    [][(Settles /\ delivered'.call.op = "build")
       => LET c == delivered'.call
              n == c.tableName
          IN  /\ delivered'.status = "resolved"
              /\ DOMAIN mockBackendStore' = DOMAIN mockBackendStore \cup {n}
              /\ mockBackendStore'[n] = {c.keys[i] : i \in DOMAIN c.keys}
              /\ \A k \in Keys :
                    (k \in mockBackendStore'[n]) = (\E i \in DOMAIN c.keys : c.keys[i] = k)
              /\ \A k \in supplied[n] :
                    (\A i \in DOMAIN c.keys : c.keys[i] # k) => k \notin mockBackendStore'[n]
              /\ \A m \in DOMAIN mockBackendStore :
                    m # n => mockBackendStore'[m] = mockBackendStore[m]]_vars

\* A build has settled and left out a key that was supplied to the name before
\* and not deleted.
C15_Witness ==
    /\ delivered.status = "resolved"
    /\ delivered.call.op = "build"
    /\ delivered.call.keys # <<>>
    /\ \E k \in supplied[delivered.call.tableName] :
          k \notin mockBackendStore[delivered.call.tableName]

\* C16: no step of a build, search, insert or delete takes a name out of the
\* store; a delete that removes the last key of an instance leaves the name in
\* the store with the empty set, and a search that settles on an empty instance
\* is resolved with found = false.
C16_NoImplicitDestruction ==
    [][/\ DOMAIN mockBackendStore \subseteq DOMAIN mockBackendStore'
       /\ (Settles
             /\ delivered'.call.op = "delete"
             /\ delivered'.call.tableName \in DOMAIN mockBackendStore
             /\ mockBackendStore[delivered'.call.tableName] = {delivered'.call.key})
          => (/\ delivered'.call.tableName \in DOMAIN mockBackendStore'
              /\ mockBackendStore'[delivered'.call.tableName] = {})
       /\ (Settles
             /\ delivered'.call.op = "search"
             /\ delivered'.call.tableName \in DOMAIN mockBackendStore
             /\ mockBackendStore[delivered'.call.tableName] = {})
          => (delivered'.status = "resolved" /\ delivered'.value.found = FALSE)]_vars

\* A delete has removed the last key of an instance, which is still in the
\* store, empty, next to the instance of the other name.
C16_Witness ==
    /\ delivered.status = "resolved"
    /\ delivered.call.op = "delete"
    /\ delivered.value.success = TRUE
    /\ delivered.call.tableName \in DOMAIN mockBackendStore
    /\ mockBackendStore[delivered.call.tableName] = {}
    /\ DOMAIN mockBackendStore = Names

\* C17: a search changes no instance, neither when it is started nor when it
\* settles, resolved or rejected; and the found it returns is the membership of
\* its key in the instance of its name in the state where it settles.
C17_SearchReadOnly ==
    [][LET c == IF Settles THEN delivered'.call ELSE pending'[Len(pending')]
       IN  c.op = "search" =>
              /\ mockBackendStore' = mockBackendStore
              /\ Settles =>
                    IF c.tableName \in DOMAIN mockBackendStore
                    THEN /\ delivered'.status = "resolved"
                         /\ delivered'.value.found = (c.key \in mockBackendStore[c.tableName])
                         /\ delivered'.value.found = (c.key \in mockBackendStore'[c.tableName])
                    ELSE delivered'.status = "rejected"]_vars

\* A search has not found a key in a non-empty instance while an insert of that
\* key on the same name, started before it, is still in flight.
C17_Witness ==
    /\ delivered.status = "resolved"
    /\ delivered.call.op = "search"
    /\ delivered.value.found = FALSE
    /\ mockBackendStore[delivered.call.tableName] # {}
    /\ \E j \in DOMAIN pending :
          /\ pending[j].op = "insert"
          /\ pending[j].tableName = delivered.call.tableName
          /\ pending[j].key = delivered.call.key

\* C18: a step that settles a call of handleBuildCQF or performCqfAction puts
\* exactly one line on the console, for that call, in front of the lines that
\* were there, which stay as they were and in their order; any other step
\* puts no line on it.
C18_ConsoleSink ==
    [][IF Settles
       THEN /\ Len(cqfConsole') = Len(cqfConsole) + 1
            /\ \A j \in DOMAIN cqfConsole : cqfConsole'[j + 1] = cqfConsole[j]
            /\ LET line == cqfConsole'[1]
                   out == delivered'
               IN  CASE out.status = "rejected" -> line.level = "ERROR"
                     [] out.call.op = "build" ->
                           line.level = "SYSTEM" /\ line.message = out.value.message
                     [] OTHER ->
                           /\ line.level = ""
                           /\ line.key = out.call.key
                           /\ line.op = CASE out.call.op = "search" -> "Search"
                                          [] out.call.op = "insert" -> "Insert"
                                          [] out.call.op = "delete" -> "Delete"
       ELSE cqfConsole' = cqfConsole \/ cqfConsole' = <<>>]_vars

\* A delete that found nothing has put its line in front of the line of the
\* build.
C18_Witness ==
    /\ Len(cqfConsole) = 2
    /\ cqfConsole[2].level = "SYSTEM"
    /\ cqfConsole[1].level = ""
    /\ cqfConsole[1].op = "Delete"
    /\ cqfConsole[1].result = "FAILED (Not found)"
    /\ delivered.status = "resolved"
    /\ delivered.call.op = "delete"

ActionOps == {"search", "insert", "delete"}

\* C19: every name the page marks as built is in the store; so is the name of
\* every search, insert or delete in flight; and a search, insert or delete
\* that settles is resolved, never rejected.
C19_ReadinessSound ==
    /\ cqfBuiltTables \subseteq DOMAIN mockBackendStore
    /\ isCqfReady => selectedTable.name \in DOMAIN mockBackendStore
    /\ \A i \in DOMAIN pending :
          pending[i].op \in ActionOps => pending[i].tableName \in DOMAIN mockBackendStore
    /\ (delivered.status # "none" /\ delivered.call.op \in ActionOps)
          => delivered.status = "resolved"

\* A search started from the panel was resolved after a new file had cleared
\* the marks, on a name that is no longer marked.
C19_Witness ==
    /\ delivered.status = "resolved"
    /\ delivered.call.op = "search"
    /\ delivered.call.tableName \notin cqfBuiltTables
    /\ uploading

\* C20, the flag: cqfOperationLoading is true exactly when a search, insert or
\* delete is in flight, and at most one is.
C20_Flag ==
    LET inFlight == {i \in DOMAIN pending : pending[i].op \in ActionOps}
    IN  /\ cqfOperationLoading = (inFlight # {})
        /\ Cardinality(inFlight) <= 1

\* C20, the reset: the step that settles a search, insert or delete, resolved
\* or rejected, sets the flag to false and empties the key input.
C20_Reset ==
    (Settles /\ delivered'.call.op \in ActionOps)
    => (cqfOperationLoading' = FALSE /\ searchKey' = "")

\* C20: the flag is true exactly while an operation of performCqfAction is in
\* flight, at most one is in flight, the flag is set back to false in the end,
\* and the step that sets it back empties the key input.
C20_OperationGating ==
    /\ [](C20_Flag)
    /\ [][C20_Reset]_vars
    /\ (cqfOperationLoading ~> ~cqfOperationLoading)

\* An operation of the panel is in flight, the flag is set, the key input was
\* changed since, and a build started after a new file was loaded is in flight
\* too.
C20_Witness ==
    /\ cqfOperationLoading
    /\ isLoading
    /\ Len(pending) = 2
    /\ pending[1].op \in ActionOps
    /\ pending[2].op = "build"
    /\ cqfBuiltTables = {}

====
